---- MODULE Spec2Model ----
(***************************************************************************)
(* The endgame-knowledge evaluators of src/src/endgame.cpp: the heuristic  *)
(* tables, normalize(), the eight score evaluators and the two scale       *)
(* evaluators, applied to positions holding exactly the material each      *)
(* evaluator asserts.                                                      *)
(*                                                                         *)
(* endgame.cpp includes types.h, bitboard.h and position.h, which are not  *)
(* part of the sources at hand.  The definitions taken from them (squares, *)
(* files, ranks, distance, relative_square, the Position queries, the      *)
(* piece values) follow the description of the geometry primitives and of  *)
(* the position collaborator; the numeric piece values are placeholders    *)
(* on which no property below depends.                                     *)
(***************************************************************************)
EXTENDS Integers, Sequences, FiniteSets, TLC

VARIABLES pc, eg, strongSide, pos, result, sq, sq1, sq2

vars == <<pc, eg, strongSide, pos, result, sq, sq1, sq2>>

(***************************************************************************)
(* Bounds of the model.                                                    *)
(***************************************************************************)
\* Squares (the first PoolSize of SquareOrder) the pieces an evaluator
\* reads are placed on.
PoolSize == 9
\* Number of alternative placements of the pieces an evaluator never reads.
NumShifts == 2

(***************************************************************************)
(* types.h: colours, piece types, squares, files, ranks, values.           *)
(***************************************************************************)
WHITE == 0
BLACK == 1
Color == {WHITE, BLACK}

PieceType == {"KING", "QUEEN", "ROOK", "BISHOP", "KNIGHT", "PAWN"}

SQUARE_NB == 64
Square == 0 .. (SQUARE_NB - 1)

FILE_E == 4
RANK_1 == 0
RANK_7 == 6
SQ_A8 == 56

VALUE_ZERO == 0
VALUE_KNOWN_WIN == 10000
KnightValueMg == 753
BishopValueMg == 826
RookValueMg == 1285
QueenValueMg == 2513
BishopValueEg == 897
RookValueEg == 1371
QueenValueEg == 2650

SCALE_FACTOR_DRAW == 0
SCALE_FACTOR_NONE == 255

\* operator~(Color)
Opp(c) == 1 - c

\* a ^ b on non-negative integers
RECURSIVE BitXor(_, _)
BitXor(a, b) ==
  IF a = 0 THEN b
  ELSE IF b = 0 THEN a
  ELSE (((a % 2) + (b % 2)) % 2) + 2 * BitXor(a \div 2, b \div 2)

\* file_of(s) is s & 7, rank_of(s) is s >> 3
file_of(s) == s % 8
rank_of(s) == s \div 8

\* operator~(Square): vertical flip, SQ_A1 -> SQ_A8
FlipSq(s) == BitXor(s, SQ_A8)

relative_square(c, s) == BitXor(s, c * 56)
relative_rank(c, s) == BitXor(rank_of(s), c * 7)

Abs(x) == IF x < 0 THEN -x ELSE x
Max(a, b) == IF a > b THEN a ELSE b
Min(a, b) == IF a < b THEN a ELSE b

\* distance<File>, distance<Rank> and distance (SquareDistance)
distanceFile(x, y) == Abs(file_of(x) - file_of(y))
distanceRank(x, y) == Abs(rank_of(x) - rank_of(y))
distance(x, y) == Max(distanceFile(x, y), distanceRank(x, y))

\* bitboard.h: DarkSquares (0xAA55AA55AA55AA55), SQ_A1 is dark
DarkSquares == {s \in Square : (file_of(s) + rank_of(s)) % 2 = 0}

\* passed_pawn_mask(c, s): the squares in front of s, from c's point of
\* view, on the file of s and the adjacent files
passed_pawn_mask(c, s) ==
  {t \in Square : /\ distanceFile(t, s) <= 1
                  /\ IF c = WHITE THEN rank_of(t) > rank_of(s)
                                  ELSE rank_of(t) < rank_of(s)}

(***************************************************************************)
(* position.h: the queries of a Position the evaluators use.  A position   *)
(* is its side to move and its piece lists.                                *)
(***************************************************************************)
side_to_move(p) == p.stm
squares(p, pt, c) == p.pieceList[<<c, pt>>]
count(p, pt, c) == Len(squares(p, pt, c))
square(p, pt, c) == squares(p, pt, c)[1]
piecesOf(p, c, pt) == {squares(p, pt, c)[i] : i \in 1 .. count(p, pt, c)}
pieces(p, pt) == piecesOf(p, WHITE, pt) \cup piecesOf(p, BLACK, pt)

non_pawn_material(p, c) ==
    count(p, "KNIGHT", c) * KnightValueMg
  + count(p, "BISHOP", c) * BishopValueMg
  + count(p, "ROOK", c) * RookValueMg
  + count(p, "QUEEN", c) * QueenValueMg

pawn_passed(p, c, s) == piecesOf(p, Opp(c), "PAWN") \cap passed_pawn_mask(c, s) = {}

(***************************************************************************)
(* endgame.cpp: the tables.                                                *)
(***************************************************************************)
PushToEdgesTable ==
  << 100, 90, 80, 70, 70, 80, 90, 100,
      90, 70, 60, 50, 50, 60, 70,  90,
      80, 60, 40, 30, 30, 40, 60,  80,
      70, 50, 30, 20, 20, 30, 50,  70,
      70, 50, 30, 20, 20, 30, 50,  70,
      80, 60, 40, 30, 30, 40, 60,  80,
      90, 70, 60, 50, 50, 60, 70,  90,
     100, 90, 80, 70, 70, 80, 90, 100 >>

PushToEdges(s) == PushToEdgesTable[s + 1]

\* PushClose as the specification describes it
PushCloseAsDescribed(d) == <<100, 100, 80, 60, 40, 20, 10, 0>>[d + 1]

PushClose(d) == <<0, 0, 100, 80, 60, 40, 20, 10>>[d + 1]

PushAway(d) == <<0, 5, 20, 40, 60, 80, 90, 100>>[d + 1]

KRPPKRPScaleFactors(r) == <<0, 9, 10, 14, 21, 44, 0, 0>>[r + 1]

verify_material(p, c, npm, pawnsCnt) ==
  non_pawn_material(p, c) = npm /\ count(p, "PAWN", c) = pawnsCnt

\* normalize() with FILE_E itself left unmirrored
normalizeFromFileF(p, c, s) ==
  LET m == IF file_of(square(p, "PAWN", c)) > FILE_E THEN BitXor(s, 7) ELSE s
  IN  IF c = BLACK THEN FlipSq(m) ELSE m

\* normalize() without the flip for BLACK
normalizeNoFlip(p, c, s) ==
  IF file_of(square(p, "PAWN", c)) >= FILE_E THEN BitXor(s, 7) ELSE s

normalize(p, c, s) ==
  LET m == IF file_of(square(p, "PAWN", c)) >= FILE_E THEN BitXor(s, 7) ELSE s
  IN  IF c = BLACK THEN FlipSq(m) ELSE m

(***************************************************************************)
(* endgame.cpp: the evaluators.  Each takes its strongSide (weakSide is    *)
(* the other colour) and the position.  Result_E is the local `result` of  *)
(* Endgame<E>::operator(), Endgame_E what the operator returns.            *)
(***************************************************************************)
\* KR vs KP with relative_square applied to the king's square only
Result_KRKP_OneRelative(c, p) ==
  LET wksq == relative_square(c, square(p, "KING", c))
      psq  == square(p, "PAWN", Opp(c))
  IN  RookValueEg - distance(wksq, psq)

Result_KRKP(c, p) ==
  LET wksq == relative_square(c, square(p, "KING", c))
      psq  == relative_square(c, square(p, "PAWN", Opp(c)))
  IN  RookValueEg - distance(wksq, psq)

Endgame_KRKP(c, p) ==
  IF c = side_to_move(p) THEN Result_KRKP(c, p) ELSE -Result_KRKP(c, p)

Result_KRKB(c, p) ==
  LET winnerKSq == square(p, "KING", c)
      loserKSq  == square(p, "KING", Opp(c))
  IN  RookValueEg - BishopValueEg + PushToEdges(loserKSq)
        + PushClose(distance(winnerKSq, loserKSq))

\* KR vs KB returning `result` whoever is to move
Endgame_KRKB_NoSign(c, p) == Result_KRKB(c, p)

Endgame_KRKB(c, p) ==
  IF c = side_to_move(p) THEN Result_KRKB(c, p) ELSE -Result_KRKB(c, p)

Result_KRKN(c, p) ==
  LET bksq == square(p, "KING", Opp(c))
      bnsq == square(p, "KNIGHT", Opp(c))
  IN  PushToEdges(bksq) + PushAway(distance(bksq, bnsq))

Endgame_KRKN(c, p) ==
  IF c = side_to_move(p) THEN Result_KRKN(c, p) ELSE -Result_KRKN(c, p)

Result_KNKB(c, p) ==
  LET wksq == square(p, "KING", c)
      wnsq == square(p, "KNIGHT", c)
      bksq == square(p, "KING", Opp(c))
      bbsq == square(p, "BISHOP", Opp(c))
  IN  PushToEdges(bbsq) + PushClose(distance(wksq, bbsq))
        + PushClose(distance(wnsq, bbsq)) + PushAway(distance(bksq, bbsq))

Endgame_KNKB(c, p) ==
  IF c = side_to_move(p) THEN Result_KNKB(c, p) ELSE -Result_KNKB(c, p)

Result_KQKP(c, p) ==
  LET winnerKSq == square(p, "KING", c)
      queenSq   == square(p, "QUEEN", c)
      pawnSq    == square(p, "PAWN", Opp(c))
  IN  QueenValueEg + PushClose(distance(winnerKSq, pawnSq))
        + PushClose(distance(winnerKSq, queenSq))

Endgame_KQKP(c, p) ==
  IF c = side_to_move(p) THEN Result_KQKP(c, p) ELSE -Result_KQKP(c, p)

Result_KRKQ(c, p) ==
  LET winnerKSq == square(p, "KING", c)
      loserKSq  == square(p, "KING", Opp(c))
  IN  RookValueEg - QueenValueEg + PushToEdges(loserKSq)
        + PushClose(distance(winnerKSq, loserKSq))

Endgame_KRKQ(c, p) ==
  IF c = side_to_move(p) THEN Result_KRKQ(c, p) ELSE -Result_KRKQ(c, p)

\* KQQ vs KQ looking at the colour class of strongSide's queens only
Result_KQQKQ_StrongQueensOnly(c, p) ==
  LET wksq == square(p, "KING", c)
      bksq == square(p, "KING", Opp(c))
      bqsq == square(p, "QUEEN", Opp(c))
      base == PushToEdges(bqsq) + PushToEdges(bksq)
                + PushClose(distance(wksq, bqsq)) + PushAway(distance(bksq, bqsq))
  IN  IF \/ piecesOf(p, c, "QUEEN") \cap DarkSquares = {}
         \/ piecesOf(p, c, "QUEEN") \cap (Square \ DarkSquares) = {}
      THEN base + VALUE_KNOWN_WIN ELSE base

Result_KQQKQ(c, p) ==
  LET wksq == square(p, "KING", c)
      bksq == square(p, "KING", Opp(c))
      bqsq == square(p, "QUEEN", Opp(c))
      base == PushToEdges(bqsq) + PushToEdges(bksq)
                + PushClose(distance(wksq, bqsq)) + PushAway(distance(bksq, bqsq))
  IN  IF \/ pieces(p, "QUEEN") \cap DarkSquares = {}
         \/ pieces(p, "QUEEN") \cap (Square \ DarkSquares) = {}
      THEN base + VALUE_KNOWN_WIN ELSE base

Endgame_KQQKQ(c, p) ==
  IF c = side_to_move(p) THEN Result_KQQKQ(c, p) ELSE -Result_KQQKQ(c, p)

\* KP vs KP with the two pawns' squares left unnormalized
Result_KPKP_RawPawns(c, p) ==
  LET wksq == normalize(p, c, square(p, "KING", c))
      bksq == normalize(p, c, square(p, "KING", Opp(c)))
      wpsq == square(p, "PAWN", c)
      bpsq == square(p, "PAWN", Opp(c))
  IN  PushClose(distance(wksq, bpsq)) - PushClose(distance(bksq, wpsq))

Result_KPKP(c, p) ==
  LET wksq == normalize(p, c, square(p, "KING", c))
      bksq == normalize(p, c, square(p, "KING", Opp(c)))
      wpsq == normalize(p, c, square(p, "PAWN", c))
      bpsq == normalize(p, c, square(p, "PAWN", Opp(c)))
  IN  PushClose(distance(wksq, bpsq)) - PushClose(distance(bksq, wpsq))

Endgame_KPKP(c, p) ==
  IF c = side_to_move(p) THEN Result_KPKP(c, p) ELSE -Result_KPKP(c, p)

Endgame_KRPKR(c, p) == SCALE_FACTOR_DRAW

\* Endgame<KRPPKRP>::operator(): ret is what it returns, assertOk whether
\* the assertion on r, where it is reached, holds.
\* First, three variants: testing only the first pawn for being passed,
Endgame_KRPPKRP_FirstPawnOnly(c, p) ==
  LET wpsq1 == squares(p, "PAWN", c)[1]
      wpsq2 == squares(p, "PAWN", c)[2]
      bksq  == square(p, "KING", Opp(c))
      r     == Max(relative_rank(c, wpsq1), relative_rank(c, wpsq2))
  IN  IF pawn_passed(p, c, wpsq1)
      THEN [ret |-> SCALE_FACTOR_NONE, assertOk |-> TRUE]
      ELSE IF /\ distanceFile(bksq, wpsq1) <= 1
              /\ distanceFile(bksq, wpsq2) <= 1
              /\ relative_rank(c, bksq) > r
           THEN [ret |-> KRPPKRPScaleFactors(r), assertOk |-> r > RANK_1 /\ r < RANK_7]
           ELSE [ret |-> SCALE_FACTOR_NONE, assertOk |-> TRUE]

\* taking the lower of the two pawns' ranks for r,
Endgame_KRPPKRP_MinRank(c, p) ==
  LET wpsq1 == squares(p, "PAWN", c)[1]
      wpsq2 == squares(p, "PAWN", c)[2]
      bksq  == square(p, "KING", Opp(c))
      r     == Min(relative_rank(c, wpsq1), relative_rank(c, wpsq2))
  IN  IF pawn_passed(p, c, wpsq1) \/ pawn_passed(p, c, wpsq2)
      THEN [ret |-> SCALE_FACTOR_NONE, assertOk |-> TRUE]
      ELSE IF /\ distanceFile(bksq, wpsq1) <= 1
              /\ distanceFile(bksq, wpsq2) <= 1
              /\ relative_rank(c, bksq) > r
           THEN [ret |-> KRPPKRPScaleFactors(r), assertOk |-> r > RANK_1 /\ r < RANK_7]
           ELSE [ret |-> SCALE_FACTOR_NONE, assertOk |-> TRUE]

\* and taking ranks from WHITE's side whatever strongSide is.
Endgame_KRPPKRP_AbsoluteRanks(c, p) ==
  LET wpsq1 == squares(p, "PAWN", c)[1]
      wpsq2 == squares(p, "PAWN", c)[2]
      bksq  == square(p, "KING", Opp(c))
      r     == Max(rank_of(wpsq1), rank_of(wpsq2))
  IN  IF pawn_passed(p, c, wpsq1) \/ pawn_passed(p, c, wpsq2)
      THEN [ret |-> SCALE_FACTOR_NONE, assertOk |-> TRUE]
      ELSE IF /\ distanceFile(bksq, wpsq1) <= 1
              /\ distanceFile(bksq, wpsq2) <= 1
              /\ rank_of(bksq) > r
           THEN [ret |-> KRPPKRPScaleFactors(r), assertOk |-> r > RANK_1 /\ r < RANK_7]
           ELSE [ret |-> SCALE_FACTOR_NONE, assertOk |-> TRUE]

Endgame_KRPPKRP(c, p) ==
  LET wpsq1 == squares(p, "PAWN", c)[1]
      wpsq2 == squares(p, "PAWN", c)[2]
      bksq  == square(p, "KING", Opp(c))
      r     == Max(relative_rank(c, wpsq1), relative_rank(c, wpsq2))
  IN  IF pawn_passed(p, c, wpsq1) \/ pawn_passed(p, c, wpsq2)
      THEN [ret |-> SCALE_FACTOR_NONE, assertOk |-> TRUE]
      ELSE IF /\ distanceFile(bksq, wpsq1) <= 1
              /\ distanceFile(bksq, wpsq2) <= 1
              /\ relative_rank(c, bksq) > r
           THEN [ret |-> KRPPKRPScaleFactors(r), assertOk |-> r > RANK_1 /\ r < RANK_7]
           ELSE [ret |-> SCALE_FACTOR_NONE, assertOk |-> TRUE]

\* Endgames::Endgames(): the ten evaluators the registry holds
ScoreEndgames == {"KRKP", "KRKB", "KRKN", "KNKB", "KQKP", "KRKQ", "KPKP", "KQQKQ"}
ScaleEndgames == {"KRPKR", "KRPPKRP"}
Endgames == ScoreEndgames \cup ScaleEndgames

\* The evaluator registered under code e, applied
Evaluate(e, c, p) ==
  CASE e = "KRKP"    -> Endgame_KRKP(c, p)
    [] e = "KRKB"    -> Endgame_KRKB(c, p)
    [] e = "KRKN"    -> Endgame_KRKN(c, p)
    [] e = "KNKB"    -> Endgame_KNKB(c, p)
    [] e = "KQKP"    -> Endgame_KQKP(c, p)
    [] e = "KRKQ"    -> Endgame_KRKQ(c, p)
    [] e = "KPKP"    -> Endgame_KPKP(c, p)
    [] e = "KQQKQ"   -> Endgame_KQQKQ(c, p)
    [] e = "KRPKR"   -> Endgame_KRPKR(c, p)
    [] e = "KRPPKRP" -> Endgame_KRPPKRP(c, p).ret

(***************************************************************************)
(* The positions the evaluators are applied to.  The pieces an evaluator   *)
(* reads stand on squares of Pool; the pieces it never reads stand on      *)
(* squares from the far end of SquareOrder, moved along by a shift.        *)
(***************************************************************************)
SquareOrder ==
  << 26, 28, 35, 43, 49, 57,  0, 63, 54,  9, 14, 41,  4, 31, 21, 48,
     11, 38,  1, 55, 18, 45,  8, 62, 25, 52, 15, 42, 32, 59, 22, 12,
     39, 29, 56, 19, 46, 36, 53, 16,  6, 33, 60, 50, 13,  3, 30, 20,
     47, 10, 37, 27, 17, 44,  7, 34, 24, 51,  2, 61, 23, 40,  5, 58 >>

Pool == {SquareOrder[i] : i \in 1 .. PoolSize}
IsPawnSquare(s) == rank_of(s) >= 1 /\ rank_of(s) <= 6
PawnSquares == {s \in Square : IsPawnSquare(s)}
PawnPool == {s \in Pool : IsPawnSquare(s)}
Shifts == 0 .. (NumShifts - 1)
\* KN vs KB, KQQ vs KQ and KP vs KP read every piece: nothing to shift
ShiftsFor(e) == IF e \in {"KNKB", "KQQKQ", "KPKP"} THEN {0} ELSE Shifts
Elsewhere(j, t) == SquareOrder[SQUARE_NB + 1 - j - t]

Tuples2(A, B) == {x \in A \X B : x[1] # x[2]}
Tuples3(A, B, C) == {x \in A \X B \X C : Cardinality({x[1], x[2], x[3]}) = 3}
Tuples4(A, B, C, D) ==
  {x \in A \X B \X C \X D : Cardinality({x[1], x[2], x[3], x[4]}) = 4}
Tuples5(A, B, C, D, E) ==
  {x \in A \X B \X C \X D \X E : Cardinality({x[1], x[2], x[3], x[4], x[5]}) = 5}

MkPos(stm, f) ==
  [stm |-> stm,
   pieceList |-> [k \in Color \X PieceType |-> IF k \in DOMAIN f THEN f[k] ELSE <<>>]]

\* The piece lists of the placements of evaluator e's material, c being
\* the strong side
Placements(e, c, t) ==
  LET w == Opp(c) IN
  CASE e = "KRKP" ->
         {(<<c, "KING">> :> <<x[1]>>) @@ (<<c, "ROOK">> :> <<Elsewhere(1, t)>>)
            @@ (<<w, "KING">> :> <<Elsewhere(2, t)>>) @@ (<<w, "PAWN">> :> <<x[2]>>)
          : x \in Tuples2(Pool, PawnPool)}
    [] e = "KRKB" ->
         {(<<c, "KING">> :> <<x[1]>>) @@ (<<c, "ROOK">> :> <<Elsewhere(1, t)>>)
            @@ (<<w, "KING">> :> <<x[2]>>) @@ (<<w, "BISHOP">> :> <<Elsewhere(2, t)>>)
          : x \in Tuples2(Pool, Pool)}
    [] e = "KRKN" ->
         {(<<c, "KING">> :> <<Elsewhere(1, t)>>) @@ (<<c, "ROOK">> :> <<Elsewhere(2, t)>>)
            @@ (<<w, "KING">> :> <<x[1]>>) @@ (<<w, "KNIGHT">> :> <<x[2]>>)
          : x \in Tuples2(Pool, Pool)}
    [] e = "KNKB" ->
         {(<<c, "KING">> :> <<x[1]>>) @@ (<<c, "KNIGHT">> :> <<x[2]>>)
            @@ (<<w, "KING">> :> <<x[3]>>) @@ (<<w, "BISHOP">> :> <<x[4]>>)
          : x \in Tuples4(Pool, Pool, Pool, Pool)}
    [] e = "KQKP" ->
         {(<<c, "KING">> :> <<x[1]>>) @@ (<<c, "QUEEN">> :> <<x[2]>>)
            @@ (<<w, "KING">> :> <<Elsewhere(1, t)>>) @@ (<<w, "PAWN">> :> <<x[3]>>)
          : x \in Tuples3(Pool, Pool, PawnPool)}
    [] e = "KRKQ" ->
         {(<<c, "KING">> :> <<x[1]>>) @@ (<<c, "ROOK">> :> <<Elsewhere(1, t)>>)
            @@ (<<w, "KING">> :> <<x[2]>>) @@ (<<w, "QUEEN">> :> <<Elsewhere(2, t)>>)
          : x \in Tuples2(Pool, Pool)}
    [] e = "KQQKQ" ->
         {(<<c, "KING">> :> <<x[1]>>) @@ (<<c, "QUEEN">> :> <<x[4], x[5]>>)
            @@ (<<w, "KING">> :> <<x[2]>>) @@ (<<w, "QUEEN">> :> <<x[3]>>)
          : x \in Tuples5(Pool, Pool, Pool, Pool, Pool)}
    [] e = "KPKP" ->
         {(<<c, "KING">> :> <<x[1]>>) @@ (<<c, "PAWN">> :> <<x[3]>>)
            @@ (<<w, "KING">> :> <<x[2]>>) @@ (<<w, "PAWN">> :> <<x[4]>>)
          : x \in Tuples4(Pool, Pool, PawnPool, PawnPool)}
    [] e = "KRPKR" ->
         {(<<c, "KING">> :> <<x[1]>>) @@ (<<c, "ROOK">> :> <<Elsewhere(1, t)>>)
            @@ (<<c, "PAWN">> :> <<x[3]>>)
            @@ (<<w, "KING">> :> <<x[2]>>) @@ (<<w, "ROOK">> :> <<Elsewhere(2, t)>>)
          : x \in Tuples3(Pool, Pool, PawnPool)}
    [] e = "KRPPKRP" ->
         {(<<c, "KING">> :> <<Elsewhere(1, t)>>) @@ (<<c, "ROOK">> :> <<Elsewhere(2, t)>>)
            @@ (<<c, "PAWN">> :> <<x[1], x[2]>>)
            @@ (<<w, "KING">> :> <<x[4]>>) @@ (<<w, "ROOK">> :> <<Elsewhere(3, t)>>)
            @@ (<<w, "PAWN">> :> <<x[3]>>)
          : x \in Tuples4(PawnPool, PawnPool, PawnPool, Pool)}

Init ==
  /\ pc = "ready"
  /\ result = 0
  /\ sq = 0
  /\ sq1 = 0
  /\ sq2 = 0
  /\ eg \in Endgames
  /\ strongSide \in Color
  /\ \E stm \in Color, t \in ShiftsFor(eg) :
       pos \in {MkPos(stm, f) : f \in Placements(eg, strongSide, t)}

(***************************************************************************)
(* One action per evaluator: Endgame<E>::operator()(pos) of the evaluator  *)
(* the registry holds for the position's material.  The guards are the     *)
(* evaluator's verify_material assertions.                                 *)
(***************************************************************************)
Return(v) ==
  /\ result' = v
  /\ pc' = "done"
  /\ UNCHANGED <<eg, strongSide, pos, sq, sq1, sq2>>

Call_KRKP ==
  /\ pc = "ready" /\ eg = "KRKP"
  /\ verify_material(pos, strongSide, RookValueMg, 0)
  /\ verify_material(pos, Opp(strongSide), VALUE_ZERO, 1)
  /\ Return(Endgame_KRKP(strongSide, pos))

Call_KRKB ==
  /\ pc = "ready" /\ eg = "KRKB"
  /\ verify_material(pos, strongSide, RookValueMg, 0)
  /\ verify_material(pos, Opp(strongSide), BishopValueMg, 0)
  /\ Return(Endgame_KRKB(strongSide, pos))

Call_KRKN ==
  /\ pc = "ready" /\ eg = "KRKN"
  /\ verify_material(pos, strongSide, RookValueMg, 0)
  /\ verify_material(pos, Opp(strongSide), KnightValueMg, 0)
  /\ Return(Endgame_KRKN(strongSide, pos))

Call_KNKB ==
  /\ pc = "ready" /\ eg = "KNKB"
  /\ verify_material(pos, strongSide, KnightValueMg, 0)
  /\ verify_material(pos, Opp(strongSide), BishopValueMg, 0)
  /\ Return(Endgame_KNKB(strongSide, pos))

Call_KQKP ==
  /\ pc = "ready" /\ eg = "KQKP"
  /\ verify_material(pos, strongSide, QueenValueMg, 0)
  /\ verify_material(pos, Opp(strongSide), VALUE_ZERO, 1)
  /\ Return(Endgame_KQKP(strongSide, pos))

Call_KRKQ ==
  /\ pc = "ready" /\ eg = "KRKQ"
  /\ verify_material(pos, strongSide, RookValueMg, 0)
  /\ verify_material(pos, Opp(strongSide), QueenValueMg, 0)
  /\ Return(Endgame_KRKQ(strongSide, pos))

Call_KQQKQ ==
  /\ pc = "ready" /\ eg = "KQQKQ"
  /\ verify_material(pos, strongSide, 2 * QueenValueMg, 0)
  /\ verify_material(pos, Opp(strongSide), QueenValueMg, 0)
  /\ Return(Endgame_KQQKQ(strongSide, pos))

Call_KPKP ==
  /\ pc = "ready" /\ eg = "KPKP"
  /\ verify_material(pos, strongSide, VALUE_ZERO, 1)
  /\ verify_material(pos, Opp(strongSide), VALUE_ZERO, 1)
  /\ Return(Endgame_KPKP(strongSide, pos))

Call_KRPKR ==
  /\ pc = "ready" /\ eg = "KRPKR"
  /\ Return(Endgame_KRPKR(strongSide, pos))

Call_KRPPKRP ==
  /\ pc = "ready" /\ eg = "KRPPKRP"
  /\ verify_material(pos, strongSide, RookValueMg, 2)
  /\ verify_material(pos, Opp(strongSide), RookValueMg, 1)
  /\ result' = Endgame_KRPPKRP(strongSide, pos).ret
  /\ pc' = IF Endgame_KRPPKRP(strongSide, pos).assertOk THEN "done" ELSE "assert_failed"
  /\ UNCHANGED <<eg, strongSide, pos, sq, sq1, sq2>>

Next ==
  \/ Call_KRKP
  \/ Call_KRKB
  \/ Call_KRKN
  \/ Call_KNKB
  \/ Call_KQKP
  \/ Call_KRKQ
  \/ Call_KQQKQ
  \/ Call_KPKP
  \/ Call_KRPKR
  \/ Call_KRPPKRP

Spec == Init /\ [][Next]_vars

(***************************************************************************)
(* normalize() on its own: applied to a square of a pawn-vs-pawn position, *)
(* then applied to its own result, the position being the same.  The       *)
(* strong pawn stands on any of its 48 squares and sq is any square.       *)
(***************************************************************************)
InitNorm ==
  /\ pc = "ready"
  /\ result = 0
  /\ sq1 = 0
  /\ sq2 = 0
  /\ eg = "KPKP"
  /\ strongSide \in Color
  /\ sq \in Square
  /\ \E ps \in PawnSquares, t \in Shifts :
       /\ ps \notin {Elsewhere(1, t), Elsewhere(2, t)}
       /\ pos = MkPos(WHITE,
                   (<<strongSide, "KING">> :> <<Elsewhere(1, t)>>)
                     @@ (<<strongSide, "PAWN">> :> <<ps>>)
                     @@ (<<Opp(strongSide), "KING">> :> <<Elsewhere(2, t)>>)
                     @@ (<<Opp(strongSide), "PAWN">> :>
                           <<IF ps # SquareOrder[1] THEN SquareOrder[1]
                                                    ELSE SquareOrder[2]>>))

NormalizeOnce ==
  /\ pc = "ready"
  /\ count(pos, "PAWN", strongSide) = 1
  /\ sq1' = normalize(pos, strongSide, sq)
  /\ pc' = "once"
  /\ UNCHANGED <<eg, strongSide, pos, result, sq, sq2>>

NormalizeTwice ==
  /\ pc = "once"
  /\ count(pos, "PAWN", strongSide) = 1
  /\ sq2' = normalize(pos, strongSide, sq1)
  /\ pc' = "twice"
  /\ UNCHANGED <<eg, strongSide, pos, result, sq, sq1>>

NextNorm ==
  \/ NormalizeOnce
  \/ NormalizeTwice

SpecNorm == InitNorm /\ [][NextNorm]_vars

(***************************************************************************)
(* Transformations of positions the properties speak of.                   *)
(***************************************************************************)
\* The square on the same rank and the mirrored file
MirrorFile(s) == 8 * rank_of(s) + (7 - file_of(s))
\* The square on the same file and the rank seen from the other side
MirrorRank(s) == 8 * (7 - rank_of(s)) + file_of(s)

OtherSideToMove(p) == [p EXCEPT !.stm = Opp(p.stm)]

\* Every piece moved from x to F(x)
MapSquares(p, F(_)) ==
  [stm |-> p.stm,
   pieceList |-> [k \in Color \X PieceType |->
                    [i \in 1 .. Len(p.pieceList[k]) |-> F(p.pieceList[k][i])]]]

\* The two colours exchanged, pieces and side to move
SwapColours(p) ==
  [stm |-> Opp(p.stm),
   pieceList |-> [k \in Color \X PieceType |-> p.pieceList[<<Opp(k[1]), k[2]>>]]]

ColourFlip(p) == SwapColours(MapSquares(p, MirrorRank))

Occupied(p) == UNION {piecesOf(p, k[1], k[2]) : k \in Color \X PieceType}

\* The strong side's king of p put on square k
WithStrongKing(p, c, k) == [p EXCEPT !.pieceList[<<c, "KING">>] = <<k>>]

Done(e) == pc = "done" /\ eg = e
StrongToMove == side_to_move(pos) = strongSide
\* The value seen from the strong side
Unsigned == IF StrongToMove THEN result ELSE -result

(***************************************************************************)
(* Properties.                                                             *)
(***************************************************************************)

\* C1: for each of the eight score evaluators, either strong side and every
\* placement, the value returned is the negation of the value returned for
\* the same placement with the other side to move, and it is the evaluator's
\* un-negated `result` when the strong side is to move.
C1_Antisymmetry ==
  (pc = "done" /\ eg \in ScoreEndgames) =>
     /\ result = -Evaluate(eg, strongSide, OtherSideToMove(pos))
     /\ StrongToMove =>
          result = CASE eg = "KRKP"  -> Result_KRKP(strongSide, pos)
                     [] eg = "KRKB"  -> Result_KRKB(strongSide, pos)
                     [] eg = "KRKN"  -> Result_KRKN(strongSide, pos)
                     [] eg = "KNKB"  -> Result_KNKB(strongSide, pos)
                     [] eg = "KQKP"  -> Result_KQKP(strongSide, pos)
                     [] eg = "KRKQ"  -> Result_KRKQ(strongSide, pos)
                     [] eg = "KPKP"  -> Result_KPKP(strongSide, pos)
                     [] eg = "KQQKQ" -> Result_KQQKQ(strongSide, pos)

\* A rook-vs-bishop value returned negated, the weak side being to move.
C1_Witness ==
  Done("KRKB") /\ ~StrongToMove /\ result = -Result_KRKB(strongSide, pos) /\ result < 0

\* C2 as amended: normalize applied twice with the same position gives the
\* square back, and the second application changes nothing only when
\* strongSide is WHITE and its pawn stands on files A-D.
C2_Involution ==
  pc = "twice" =>
     /\ sq2 = sq
     /\ sq2 = sq1 <=> (strongSide = WHITE /\ file_of(square(pos, "PAWN", strongSide)) < FILE_E)

\* normalize applied twice for BLACK with its pawn on the right half.
C2_Witness ==
  /\ pc = "twice"
  /\ strongSide = BLACK
  /\ file_of(square(pos, "PAWN", strongSide)) >= FILE_E
  /\ sq1 # sq
  /\ sq2 = sq

\* C2 as stated: normalize(pos, strongSide, normalize(pos, strongSide, sq))
\* is normalize(pos, strongSide, sq).
C2_Idempotent == pc = "twice" => sq2 = sq1

IsDark(s) == (file_of(s) + rank_of(s)) % 2 = 0
QueensOnOneColour(p) ==
  \/ \A q \in pieces(p, "QUEEN") : IsDark(q)
  \/ \A q \in pieces(p, "QUEEN") : ~IsDark(q)
KQQKQ_Positional(c, p) ==
    PushToEdges(square(p, "QUEEN", Opp(c))) + PushToEdges(square(p, "KING", Opp(c)))
  + PushClose(distance(square(p, "KING", c), square(p, "QUEEN", Opp(c))))
  + PushAway(distance(square(p, "KING", Opp(c)), square(p, "QUEEN", Opp(c))))

\* C3 as amended: in KQQ vs KQ the VALUE_KNOWN_WIN bonus is added to the
\* positional sum exactly when all three queens on the board stand on squares
\* of one colour class, and not when they span both classes.
C3_BonusOnOneColour ==
  Done("KQQKQ") =>
     Unsigned = KQQKQ_Positional(strongSide, pos)
                  + (IF QueensOnOneColour(pos) THEN VALUE_KNOWN_WIN ELSE 0)

\* Three queens of one colour class, the weak one included, and the bonus.
C3_Witness ==
  /\ Done("KQQKQ")
  /\ QueensOnOneColour(pos)
  /\ Unsigned = KQQKQ_Positional(strongSide, pos) + VALUE_KNOWN_WIN

\* C3 as stated: the bonus is added exactly when the queens span both colour
\* classes.
C3_BonusOnBothColours ==
  Done("KQQKQ") =>
     Unsigned = KQQKQ_Positional(strongSide, pos)
                  + (IF QueensOnOneColour(pos) THEN 0 ELSE VALUE_KNOWN_WIN)

\* Ranks as strongSide c sees them: rank 1 is 0, rank 8 is 7
RankSeenBy(c, s) == IF c = WHITE THEN rank_of(s) ELSE 7 - rank_of(s)
\* No pawn of the other side in front of s on its file or a neighbouring one
IsPassed(p, c, s) ==
  \A t \in piecesOf(p, Opp(c), "PAWN") :
     ~(Abs(file_of(t) - file_of(s)) <= 1 /\ RankSeenBy(c, t) > RankSeenBy(c, s))
HigherPawnRank(p, c) ==
  Max(RankSeenBy(c, squares(p, "PAWN", c)[1]), RankSeenBy(c, squares(p, "PAWN", c)[2]))
\* Neither strong pawn passed, the weak king within one file of both and
\* beyond the more advanced of them
Blockade(p, c) ==
  /\ ~IsPassed(p, c, squares(p, "PAWN", c)[1])
  /\ ~IsPassed(p, c, squares(p, "PAWN", c)[2])
  /\ Abs(file_of(square(p, "KING", Opp(c))) - file_of(squares(p, "PAWN", c)[1])) <= 1
  /\ Abs(file_of(square(p, "KING", Opp(c))) - file_of(squares(p, "PAWN", c)[2])) <= 1
  /\ RankSeenBy(c, square(p, "KING", Opp(c))) > HigherPawnRank(p, c)

\* C4: KRPP vs KRP returns KRPPKRPScaleFactors[r], r the higher relative
\* rank of the two strong pawns, when neither is passed and the weak king is
\* within one file of both and on a higher relative rank than r; it returns
\* SCALE_FACTOR_NONE otherwise; the side to move makes no difference.
C4_ScaleFactor ==
  (pc \in {"done", "assert_failed"} /\ eg = "KRPPKRP") =>
     /\ result = IF Blockade(pos, strongSide)
                 THEN KRPPKRPScaleFactors(HigherPawnRank(pos, strongSide))
                 ELSE SCALE_FACTOR_NONE
     /\ result = Evaluate(eg, strongSide, OtherSideToMove(pos))

\* BLACK the strong side, its pawns blockaded, WHITE to move.
C4_Witness ==
  /\ Done("KRPPKRP")
  /\ strongSide = BLACK
  /\ side_to_move(pos) = WHITE
  /\ Blockade(pos, strongSide)
  /\ result = KRPPKRPScaleFactors(HigherPawnRank(pos, strongSide))
  /\ result # SCALE_FACTOR_NONE

\* C5: where the table is read, r is one of ranks 2 to 6, so the assertion
\* holds, the entries of ranks 1, 7 and 8 are never read and the result is
\* one of 9, 10, 14, 21, 44.
C5_TableRanks ==
  (pc # "ready" /\ eg = "KRPPKRP") =>
     /\ pc = "done"
     /\ Blockade(pos, strongSide) =>
          /\ HigherPawnRank(pos, strongSide) \in 1 .. 5
          /\ result \in {9, 10, 14, 21, 44}
     /\ result # SCALE_FACTOR_NONE => result \in {9, 10, 14, 21, 44}

\* The table read for a blockaded pair of pawns.
C5_Witness ==
  /\ Done("KRPPKRP")
  /\ Blockade(pos, strongSide)
  /\ HigherPawnRank(pos, strongSide) \in 1 .. 5
  /\ result \in {9, 10, 14, 21, 44}

\* A strong pawn on its seventh rank with the weak king beyond it and within
\* one file of both strong pawns: only the passed-pawn test keeps the table
\* from being read at rank 7.
C5_SeventhRankCase ==
  /\ Done("KRPPKRP")
  /\ HigherPawnRank(pos, strongSide) = 6
  /\ RankSeenBy(strongSide, square(pos, "KING", Opp(strongSide))) = 7
  /\ ~IsPassed(pos, strongSide, squares(pos, "PAWN", strongSide)[1])
  /\ result = SCALE_FACTOR_NONE

\* C6: normalize gives the same square for a board and for its mirror
\* images: (i) every piece, and the square, moved to the mirrored file;
\* (ii) the colours exchanged and every piece, and the square, moved to the
\* vertically flipped square, with the other colour as strong side.  The
\* strong pawn's own normalized square lies on files A-D.
C6_MirrorImages ==
  pc = "once" =>
     /\ normalize(MapSquares(pos, MirrorFile), strongSide, MirrorFile(sq)) = sq1
     /\ normalize(ColourFlip(pos), Opp(strongSide), MirrorRank(sq)) = sq1
     /\ sq = square(pos, "PAWN", strongSide) => file_of(sq1) < FILE_E

\* BLACK's pawn on the right half, normalized itself.
C6_Witness ==
  /\ pc = "once"
  /\ strongSide = BLACK
  /\ sq = square(pos, "PAWN", strongSide)
  /\ file_of(sq) >= FILE_E
  /\ file_of(sq1) < FILE_E
  /\ sq1 = MirrorRank(MirrorFile(sq))

KQKP_KingToPawn(p, c) == distance(square(p, "KING", c), square(p, "PAWN", Opp(c)))
KQKP_KingToQueen(p, c) == distance(square(p, "KING", c), square(p, "QUEEN", c))
\* The free squares the strong king could stand on instead, nearer to the
\* weak pawn and as far from the queen as it is now
KQKP_CloserSquares(p, c) ==
  {k \in Square \ Occupied(p) :
     /\ distance(k, square(p, "PAWN", Opp(c))) < KQKP_KingToPawn(p, c)
     /\ distance(k, square(p, "QUEEN", c)) = KQKP_KingToQueen(p, c)}

\* C7 as amended: PushClose is 0 at distances 0 and 1, has its maximum, 100,
\* at distance 2, does not increase from distance 2 to 7 and is 10 at
\* distance 7; so in KQ vs KP moving the strong king closer to the pawn never
\* lowers the score while it stays at distance 2 or more, and moving it from
\* distance 2 to distance 1 lowers the score by 100.
C7_PushCloseFromTwo ==
  Done("KQKP") =>
     /\ PushClose(0) = 0 /\ PushClose(1) = 0 /\ PushClose(2) = 100 /\ PushClose(7) = 10
     /\ \A d \in 0 .. 7 : PushClose(d) <= PushClose(2)
     /\ \A d \in 2 .. 6 : PushClose(d) >= PushClose(d + 1)
     /\ Unsigned = QueenValueEg + PushClose(KQKP_KingToPawn(pos, strongSide))
                     + PushClose(KQKP_KingToQueen(pos, strongSide))
     /\ \A k \in KQKP_CloserSquares(pos, strongSide) :
          LET d == distance(k, square(pos, "PAWN", Opp(strongSide)))
              v == Result_KQKP(strongSide, WithStrongKing(pos, strongSide, k))
          IN  /\ d >= 2 => v >= Unsigned
              /\ (d = 1 /\ KQKP_KingToPawn(pos, strongSide) = 2) => v = Unsigned - 100

\* The strong king two squares from the pawn, with a free square next to
\* the pawn at the same distance from the queen.
C7_Witness ==
  /\ Done("KQKP")
  /\ KQKP_KingToPawn(pos, strongSide) = 2
  /\ \E k \in KQKP_CloserSquares(pos, strongSide) :
       Result_KQKP(strongSide, WithStrongKing(pos, strongSide, k)) = Unsigned - 100

\* C7 as stated: PushClose has its maximum at distances 0 and 1, does not
\* increase from distance 0 to 7 and is 0 at distance 7; so in KQ vs KP moving
\* the strong king closer to the pawn never lowers the score.
C7_PushCloseFromZero ==
  Done("KQKP") =>
     /\ \A d \in 0 .. 7 : PushClose(d) <= PushClose(0) /\ PushClose(d) <= PushClose(1)
     /\ \A d \in 0 .. 6 : PushClose(d) >= PushClose(d + 1)
     /\ PushClose(7) = 0
     /\ \A k \in KQKP_CloserSquares(pos, strongSide) :
          Result_KQKP(strongSide, WithStrongKing(pos, strongSide, k)) >= Unsigned

\* C8: KR vs KP with the strong side to move returns RookValueEg minus the
\* distance between the strong king and the weak pawn as they stand, for
\* either strong side and wherever the rook and the weak king are.
C8_RookMinusDistance ==
  (Done("KRKP") /\ StrongToMove) =>
     /\ result = RookValueEg
                   - distance(square(pos, "KING", strongSide), square(pos, "PAWN", Opp(strongSide)))
     /\ distance(square(pos, "KING", strongSide), square(pos, "PAWN", Opp(strongSide))) = 1
          => result = RookValueEg - 1

\* BLACK the strong side and to move, its king next to the pawn.
C8_Witness ==
  /\ Done("KRKP")
  /\ strongSide = BLACK
  /\ StrongToMove
  /\ distance(square(pos, "KING", strongSide), square(pos, "PAWN", Opp(strongSide))) = 1
  /\ result = RookValueEg - 1

\* C9: KP vs KP returns what the squares as they stand give,
\* PushClose[distance(strong king, weak pawn)]
\*   - PushClose[distance(weak king, strong pawn)],
\* negated when the weak side is to move.
C9_NormalizeNoEffect ==
  Done("KPKP") =>
     Unsigned =
         PushClose(distance(square(pos, "KING", strongSide),
                            square(pos, "PAWN", Opp(strongSide))))
       - PushClose(distance(square(pos, "KING", Opp(strongSide)),
                            square(pos, "PAWN", strongSide)))

\* BLACK the strong side with its pawn on the right half, both transforms
\* applied, and a value other than 0.
C9_Witness ==
  /\ Done("KPKP")
  /\ strongSide = BLACK
  /\ file_of(square(pos, "PAWN", strongSide)) >= FILE_E
  /\ normalize(pos, strongSide, square(pos, "KING", strongSide))
       # square(pos, "KING", strongSide)
  /\ result # 0

\* C10: every evaluator gives, for a placement with WHITE as strong side,
\* the value it gives with BLACK as strong side for the placement with the
\* colours and the side to move exchanged and every square flipped
\* vertically.
C10_ColourSymmetry ==
  (pc = "done" /\ strongSide = WHITE) =>
     result = Evaluate(eg, BLACK, ColourFlip(pos))

\* A blockade scored for WHITE as strong side.
C10_Witness ==
  /\ Done("KRPPKRP")
  /\ strongSide = WHITE
  /\ result # SCALE_FACTOR_NONE
  /\ Evaluate(eg, BLACK, ColourFlip(pos)) = result

====
